---- MODULE Spec2Model ----
(***************************************************************************)
(* A model of rust-core: the leaky integrate-and-fire neuron (neuron.rs),  *)
(* the STDP rule (stdp.rs), the synapse (synapse.rs) and the time-stepped  *)
(* engine (simulation.rs).                                                 *)
(*                                                                         *)
(* Numbers.  Every f64 of the program is a fixed-point number here: the    *)
(* real x is the integer x * ONE.  Sums and differences are exact; a       *)
(* product or a quotient is rounded to the nearest representable value     *)
(* (ties away from zero), as an f64 operation rounds its exact result.     *)
(* Infinities and NaN are not represented, so no division by zero is       *)
(* modelled: the non-positive tau_m of the model is negative.              *)
(***************************************************************************)
EXTENDS Integers, Sequences, FiniteSets, TLC

\* ------------------------------------------------------------------ f64
ONE == 16

Abs(x) == IF x < 0 THEN -x ELSE x

\* n / d rounded to the nearest integer, ties away from zero (d # 0).
RoundDiv(n, d) ==
  LET s == IF (n < 0) # (d < 0) THEN -1 ELSE 1
  IN  s * ((2 * Abs(n) + Abs(d)) \div (2 * Abs(d)))

\* a * b on f64.
FMul(a, b) == RoundDiv(a * b, ONE)

\* a / b on f64 (b # 0).
FDiv(a, b) == RoundDiv(a * ONE, b)

\* exp on [-1, 1]: the Taylor polynomial of degree 4, rounded once.
ExpCore(q) ==
  RoundDiv(24 * ONE * ONE * ONE * ONE + 24 * q * ONE * ONE * ONE
             + 12 * q * q * ONE * ONE + 4 * q * q * q * ONE + q * q * q * q,
           24 * ONE * ONE * ONE)

\* f64::exp: exp(q) = exp(q + 1) * exp(-1) below -1, exp(q - 1) * exp(1) above 1.
\* It is exactly 1 at 0 and underflows to 0 for a large negative argument.
RECURSIVE FExp(_)
FExp(q) ==
  IF q < -ONE THEN FMul(FExp(q + ONE), ExpCore(-ONE))
  ELSE IF q > ONE THEN FMul(FExp(q - ONE), ExpCore(ONE))
  ELSE ExpCore(q)

\* Option<f64>
None == << >>
Some(x) == << x >>

\* ------------------------------------------------------------------ bounds
\* Neuron counts 0..MaxNeurons.
MaxNeurons == 3
\* The longest t_max is MaxT + 1/2 (ms).
MaxT == 4
\* run is called at most MaxRuns times on one instance.
MaxRuns == 2
\* Timesteps one call of run may execute in the model (stops a run with dt = 0).
MaxSteps == 8
\* Instances constructed one after the other (NewSim, NewSimVaried).
MaxInsts == 2

VARIABLES
  args,          \* the arguments of Simulation::new
  input_fn,      \* the input_current_fn closure handed to run
  neurons,       \* Simulation.neurons: index 0..N-1 -> Neuron
  synapses,      \* Simulation.synapses: Vec<Synapse>, in push order
  stdp_params,   \* Simulation.stdp_params
  config,        \* Simulation.config
  time,          \* Simulation.time
  pc,            \* "idle": no call of run in progress; "for": in the while body
  i,             \* run: index of the next neuron of the for loop
  spikes,        \* run: the local spikes (the returned value once pc = "idle")
  weight_log,    \* run: the local weight_log (likewise)
  calls,         \* history: calls of run made on this instance
  nsteps,        \* history: while iterations entered by the current (last) call
  last_start,    \* history: self.time at the start of the last while iteration
  returned,      \* history: one record per completed call of run
  inst,          \* history: number of this instance (1 for the first constructed)
  notified,      \* history: per synapse, the notifications received so far
  potentials     \* history: each neuron's v_mem after each of its steps in the call

vars == << args, input_fn, neurons, synapses, stdp_params, config, time, pc, i,
           spikes, weight_log, calls, nsteps, last_start, returned, inst, notified,
           potentials >>

\* ------------------------------------------------------------------ stdp.rs
\* mutant: the upper bound is not enforced
clamp_weight_lower_only(w, w_min, w_max) ==
  IF w < w_min THEN w_min ELSE w

clamp_weight(w, w_min, w_max) ==
  IF w < w_min THEN w_min
  ELSE IF w > w_max THEN w_max
  ELSE w

\* mutant: delta_t = 0 takes the potentiation branch
stdp_update_tie_up(delta_t, params) ==
  IF delta_t >= 0
    THEN FMul(params.a_plus, FExp(FDiv(-delta_t, params.tau_plus)))
    ELSE -FMul(params.a_minus, FExp(FDiv(delta_t, params.tau_minus)))

stdp_update(delta_t, params) ==
  IF delta_t > 0
    THEN FMul(params.a_plus, FExp(FDiv(-delta_t, params.tau_plus)))
    ELSE FMul(-params.a_minus, FExp(FDiv(delta_t, params.tau_minus)))

apply_stdp(w, delta_t, params) ==
  LET dw == stdp_update(delta_t, params)
  IN  clamp_weight(w + dw, params.w_min, params.w_max)

\* ------------------------------------------------------------------ synapse.rs
SynapseNew(pre_neuron, post_neuron, weight) ==
  [ pre_neuron |-> pre_neuron, post_neuron |-> post_neuron, weight |-> weight,
    last_pre_spike |-> None, last_post_spike |-> None ]

\* mutant: the rule is applied against the last pre-synaptic spike when no
\* post-synaptic spike has been seen
on_pre_spike_eager(syn, t_pre, params) ==
  LET w == IF syn.last_post_spike # None
             THEN apply_stdp(syn.weight, syn.last_post_spike[1] - t_pre, params)
             ELSE IF syn.last_pre_spike # None
               THEN apply_stdp(syn.weight, syn.last_pre_spike[1] - t_pre, params)
               ELSE syn.weight
  IN  [ syn EXCEPT !.weight = w, !.last_pre_spike = Some(t_pre) ]

\* mutant: the time of the pre spike is recorded only when none is recorded yet
on_pre_spike_first(syn, t_pre, params) ==
  LET w == IF syn.last_post_spike # None
             THEN apply_stdp(syn.weight, syn.last_post_spike[1] - t_pre, params)
             ELSE syn.weight
  IN  [ syn EXCEPT !.weight = w,
                   !.last_pre_spike = IF @ = None THEN Some(t_pre) ELSE @ ]

\* mutant: a post spike at the very time of the last pre spike is no update
on_post_spike_strict(syn, t_post, params) ==
  LET w == IF syn.last_pre_spike # None /\ t_post # syn.last_pre_spike[1]
             THEN apply_stdp(syn.weight, t_post - syn.last_pre_spike[1], params)
             ELSE syn.weight
  IN  [ syn EXCEPT !.weight = w, !.last_post_spike = Some(t_post) ]

on_pre_spike(syn, t_pre, params) ==
  LET w == IF syn.last_post_spike # None
             THEN apply_stdp(syn.weight, syn.last_post_spike[1] - t_pre, params)
             ELSE syn.weight
  IN  [ syn EXCEPT !.weight = w, !.last_pre_spike = Some(t_pre) ]

on_post_spike(syn, t_post, params) ==
  LET w == IF syn.last_pre_spike # None
             THEN apply_stdp(syn.weight, t_post - syn.last_pre_spike[1], params)
             ELSE syn.weight
  IN  [ syn EXCEPT !.weight = w, !.last_post_spike = Some(t_post) ]

\* ------------------------------------------------------------------ neuron.rs
NeuronNew(params) == [ v_mem |-> params.v_rest, params |-> params ]

\* mutant: no leak term, the potential integrates the input only
step_no_leak(neuron, input_current, dt) ==
  LET p  == neuron.params
      dv == FDiv(input_current, p.tau_m)
      v  == neuron.v_mem + FMul(dv, dt)
  IN  IF v >= p.v_thresh
        THEN [ neuron |-> [ neuron EXCEPT !.v_mem = p.v_reset ], fired |-> TRUE ]
        ELSE [ neuron |-> [ neuron EXCEPT !.v_mem = v ], fired |-> FALSE ]

\* mutant: the firing neuron keeps the integrated potential
step_no_reset(neuron, input_current, dt) ==
  LET p  == neuron.params
      dv == FDiv(-(neuron.v_mem - p.v_rest) + input_current, p.tau_m)
      v  == neuron.v_mem + FMul(dv, dt)
  IN  [ neuron |-> [ neuron EXCEPT !.v_mem = v ], fired |-> v >= p.v_thresh ]

\* Neuron::step: the neuron after the step, and whether it fired.
step(neuron, input_current, dt) ==
  LET p  == neuron.params
      dv == FDiv(-(neuron.v_mem - p.v_rest) + input_current, p.tau_m)
      v  == neuron.v_mem + FMul(dv, dt)
  IN  IF v >= p.v_thresh
        THEN [ neuron |-> [ neuron EXCEPT !.v_mem = p.v_reset ], fired |-> TRUE ]
        ELSE [ neuron |-> [ neuron EXCEPT !.v_mem = v ], fired |-> FALSE ]

\* ------------------------------------------------------------------ simulation.rs
\* The nested loops of Simulation::new, from (pre, post), pushing onto acc.
\* mutant: the inner loop also pushes the self-connection
RECURSIVE PushSynapsesSelf(_, _, _, _, _)
PushSynapsesSelf(pre, post, num_neurons, initial_weight, acc) ==
  IF pre >= num_neurons THEN acc
  ELSE IF post >= num_neurons
    THEN PushSynapsesSelf(pre + 1, 0, num_neurons, initial_weight, acc)
  ELSE PushSynapsesSelf(pre, post + 1, num_neurons, initial_weight,
                        Append(acc, SynapseNew(pre, post, initial_weight)))

RECURSIVE PushSynapses(_, _, _, _, _)
PushSynapses(pre, post, num_neurons, initial_weight, acc) ==
  IF pre >= num_neurons THEN acc
  ELSE IF post >= num_neurons
    THEN PushSynapses(pre + 1, 0, num_neurons, initial_weight, acc)
  ELSE PushSynapses(pre, post + 1, num_neurons, initial_weight,
                    IF pre # post
                      THEN Append(acc, SynapseNew(pre, post, initial_weight))
                      ELSE acc)

\* Simulation::new: the fields of the instance it returns.
New(num_neurons, neuron_params, cfg, stdp, initial_weight) ==
  [ neurons     |-> [ n \in 0 .. num_neurons - 1 |-> NeuronNew(neuron_params) ],
    synapses    |-> PushSynapses(0, 0, num_neurons, initial_weight, << >>),
    stdp_params |-> stdp,
    config      |-> cfg,
    time        |-> 0 ]

\* mutant: the weight of the last synapse into neuron n is added to its current
input_current_synaptic(n, t) ==
  LET into == SelectSeq(synapses, LAMBDA x : x.post_neuron = n)
      drive == IF t >= n * input_fn.delay THEN input_fn.amp[n] ELSE 0
  IN  IF into = << >> THEN drive ELSE drive + into[Len(into)].weight

\* The closure handed to run: a constant current per neuron, neuron n switched
\* on at time n * delay.
input_current(n, t) ==
  IF t >= n * input_fn.delay THEN input_fn.amp[n] ELSE 0

\* mutant: a spike of n also reaches, as a pre spike, the synapses not incident to n
notify_all(syn, n, t, params) ==
  LET s1 == IF syn.post_neuron # n THEN on_pre_spike(syn, t, params) ELSE syn
  IN  IF s1.post_neuron = n THEN on_post_spike(s1, t, params) ELSE s1

\* The notification loop body (simulation.rs 97-102) for one synapse.
notify(syn, n, t, params) ==
  LET s1 == IF syn.pre_neuron = n THEN on_pre_spike(syn, t, params) ELSE syn
  IN  IF s1.post_neuron = n THEN on_post_spike(s1, t, params) ELSE s1

\* mutant: only the synapses a spike has touched are logged
LogWeightsTouched(syns, t) ==
  LET touched == SelectSeq(syns, LAMBDA x :
                   x.last_pre_spike # None \/ x.last_post_spike # None)
  IN  [ k \in 1 .. Len(touched) |->
          [ time |-> t, pre |-> touched[k].pre_neuron,
            post |-> touched[k].post_neuron, weight |-> touched[k].weight ] ]

\* mutant: only the synapses whose on_pre_spike the firing triggered are logged
LogWeightsPre(syns, t) ==
  LET pre == SelectSeq(syns, LAMBDA x : x.last_pre_spike = Some(t))
  IN  [ k \in 1 .. Len(pre) |->
          [ time |-> t, pre |-> pre[k].pre_neuron, post |-> pre[k].post_neuron,
            weight |-> pre[k].weight ] ]

\* The weight records pushed after a firing (simulation.rs 105-112).
LogWeights(syns, t) ==
  [ k \in 1 .. Len(syns) |->
      [ time |-> t, pre |-> syns[k].pre_neuron, post |-> syns[k].post_neuron,
        weight |-> syns[k].weight ] ]

\* history: a call of on_pre_spike on syn is counted, and counted as an update
\* when it takes the branch that assigns the weight (synapse.rs 41-43)
NotePre(note, syn) ==
  [ note EXCEPT !.pre = @ + 1,
                !.updates = @ + (IF syn.last_post_spike # None THEN 1 ELSE 0) ]

\* history: likewise for on_post_spike (synapse.rs 49-51)
NotePost(note, syn) ==
  [ note EXCEPT !.post = @ + 1,
                !.updates = @ + (IF syn.last_pre_spike # None THEN 1 ELSE 0) ]

\* history: the calls notify makes on synapse syn when neuron n fires at t
Noted(note, syn, n, t, params) ==
  LET n1 == IF syn.pre_neuron = n THEN NotePre(note, syn) ELSE note
      s1 == IF syn.pre_neuron = n THEN on_pre_spike(syn, t, params) ELSE syn
  IN  IF s1.post_neuron = n THEN NotePost(n1, s1) ELSE n1

NoNotes(syns) ==
  [ k \in 1 .. Len(syns) |-> [ pre |-> 0, post |-> 0, updates |-> 0 ] ]

\* mutant: the loop runs while time <= t_max
ContinueLe(t) == t <= config.t_max

\* The while condition of run (simulation.rs 87) at time t.
Continue(t) == t < config.t_max

\* mutant: run returns the spikes most recent first
CompletedNewestFirst(sp, wl, steps) ==
  [ inst |-> inst, call |-> calls, steps |-> steps,
    spikes |-> [ k \in 1 .. Len(sp) |-> sp[Len(sp) + 1 - k] ], weight_log |-> wl,
    potentials |-> potentials ]

\* history: the record of a completed call
Completed(sp, wl, steps) ==
  [ inst |-> inst, call |-> calls, steps |-> steps, spikes |-> sp,
    weight_log |-> wl, potentials |-> potentials ]

\* run is called (simulation.rs 84-87): the locals are created and the while
\* condition is tested for the first time.
RunCall ==
  /\ pc = "idle"
  /\ calls < MaxRuns
  /\ calls' = calls + 1
  /\ spikes' = << >>
  /\ weight_log' = << >>
  /\ potentials' = << >>
  /\ i' = 0
  /\ IF Continue(time)
       THEN /\ pc' = "for"
            /\ nsteps' = 1
            /\ last_start' = Some(time)
            /\ UNCHANGED returned
       ELSE /\ pc' = "idle"
            /\ nsteps' = 0
            /\ returned' = Append(returned,
                 [ Completed(<< >>, << >>, 0) EXCEPT !.call = calls + 1,
                                                  !.potentials = << >> ])
            /\ UNCHANGED last_start
  /\ UNCHANGED << args, input_fn, neurons, synapses, stdp_params, config, time,
                  inst, notified >>

\* One iteration of the for loop (simulation.rs 88-114): neuron i is stepped and,
\* when it fires, the spike is pushed, the synapses notified and the weights logged.
StepNeuron ==
  /\ pc = "for"
  /\ i \in DOMAIN neurons
  /\ LET r == step(neurons[i], input_current(i, time), config.dt)
     IN  /\ neurons' = [ neurons EXCEPT ![i] = r.neuron ]
         /\ potentials' = Append(potentials, [ neuron_id |-> i, time |-> time,
                                                v_mem |-> r.neuron.v_mem ])
         /\ IF r.fired
              THEN LET syns == [ k \in 1 .. Len(synapses) |->
                                   notify(synapses[k], i, time, stdp_params) ]
                   IN  /\ spikes' = Append(spikes, [ neuron_id |-> i, time |-> time ])
                       /\ synapses' = syns
                       /\ weight_log' = weight_log \o LogWeights(syns, time)
                       /\ notified' = [ k \in 1 .. Len(synapses) |->
                                          Noted(notified[k], synapses[k], i, time,
                                                stdp_params) ]
              ELSE UNCHANGED << spikes, synapses, weight_log, notified >>
  /\ i' = i + 1
  /\ UNCHANGED << args, input_fn, stdp_params, config, time, pc, calls, nsteps,
                  last_start, returned, inst >>

\* The end of the while body (simulation.rs 116), the next test of the while
\* condition (87) and, when it fails, the return (119-125).
AdvanceTime ==
  /\ pc = "for"
  /\ i \notin DOMAIN neurons
  /\ time' = time + config.dt
  /\ IF Continue(time')
       THEN /\ nsteps < MaxSteps
            /\ i' = 0
            /\ nsteps' = nsteps + 1
            /\ last_start' = Some(time')
            /\ UNCHANGED << pc, returned >>
       ELSE /\ pc' = "idle"
            /\ returned' = Append(returned, Completed(spikes, weight_log, nsteps))
            /\ UNCHANGED << i, nsteps, last_start >>
  /\ UNCHANGED << args, input_fn, neurons, synapses, stdp_params, config, spikes,
                  weight_log, calls, inst, notified, potentials >>

Next == RunCall \/ StepNeuron \/ AdvanceTime

\* ------------------------------------------------------------------ initial states
NeuronParamsOk ==
  [ tau_m |-> 2 * ONE, v_rest |-> 0, v_thresh |-> ONE, v_reset |-> 0 ]

StdpA ==
  [ a_plus |-> ONE \div 4, a_minus |-> (5 * ONE) \div 16, tau_plus |-> 2 * ONE,
    tau_minus |-> 2 * ONE, w_min |-> 0, w_max |-> ONE ]

StdpB ==
  [ a_plus |-> (3 * ONE) \div 8, a_minus |-> (3 * ONE) \div 16, tau_plus |-> ONE,
    tau_minus |-> 3 * ONE, w_min |-> ONE \div 4, w_max |-> (3 * ONE) \div 4 ]

\* inside, above and below [w_min, w_max] of StdpA and StdpB
InitialWeights == { ONE \div 2, (5 * ONE) \div 4, -(ONE \div 4) }

\* 0, 1.5 and 2.5: a neuron at rest never fires, fires every second step, every step
Currents == { 0, (3 * ONE) \div 2, (5 * ONE) \div 2 }

DtOk == { ONE, (3 * ONE) \div 2 }

TMaxOk == { ONE \div 2, (5 * ONE) \div 2, MaxT * ONE, MaxT * ONE + ONE \div 2 }

InputFns(n) ==
  [ amp : [ 0 .. n - 1 -> Currents ], delay : { 0, ONE } ]

\* The state after Simulation::new(a.num_neurons, ...), before any call of run.
Constructed(a, f) ==
  LET s == New(a.num_neurons, a.neuron_params, a.config, a.stdp_params,
               a.initial_weight)
  IN  /\ args = a
      /\ input_fn = f
      /\ neurons = s.neurons
      /\ synapses = s.synapses
      /\ stdp_params = s.stdp_params
      /\ config = s.config
      /\ time = s.time
      /\ pc = "idle"
      /\ i = 0
      /\ spikes = << >>
      /\ weight_log = << >>
      /\ calls = 0
      /\ nsteps = 0
      /\ last_start = None
      /\ returned = << >>
      /\ inst = 1
      /\ notified = NoNotes(s.synapses)
      /\ potentials = << >>

ArgsOk ==
  [ num_neurons : 0 .. MaxNeurons, neuron_params : { NeuronParamsOk },
    config : [ dt : DtOk, t_max : TMaxOk ], stdp_params : { StdpA, StdpB },
    initial_weight : InitialWeights ]

Init == \E a \in ArgsOk : \E f \in InputFns(a.num_neurons) : Constructed(a, f)

Spec == Init /\ [][Next]_vars

\* Fairness: a call of run, once made, keeps executing (the program is sequential
\* and nothing in the loop blocks); whether run is called at all is the caller's.
\* The weights play no part in the loop's control: one STDPParams and one
\* initial_weight here, with every dt, t_max and input function.
ArgsLive ==
  [ num_neurons : 0 .. MaxNeurons - 1, neuron_params : { NeuronParamsOk },
    config : [ dt : DtOk, t_max : TMaxOk ], stdp_params : { StdpA },
    initial_weight : { ONE \div 2 } ]

InitLive == \E a \in ArgsLive : \E f \in InputFns(a.num_neurons) : Constructed(a, f)

FairSpec == InitLive /\ [][Next]_vars /\ WF_vars(StepNeuron \/ AdvanceTime)

\* ------------------------------------------------------------------ any arguments
\* Simulation::new takes its arguments as they come: also dt = 0, t_max <= 0,
\* tau_m < 0 and w_min > w_max.
NeuronParamsBad == [ NeuronParamsOk EXCEPT !.tau_m = -(2 * ONE) ]

StdpBad == [ StdpA EXCEPT !.w_min = ONE, !.w_max = 0 ]

ArgsAny ==
  [ num_neurons : 0 .. MaxNeurons - 1,
    neuron_params : { NeuronParamsOk, NeuronParamsBad },
    config : [ dt : { 0, ONE }, t_max : { -ONE, 0, (5 * ONE) \div 2 } ],
    stdp_params : { StdpA, StdpBad },
    initial_weight : { ONE \div 2 } ]

InitAny == \E a \in ArgsAny : \E f \in InputFns(a.num_neurons) : Constructed(a, f)

AnySpec == InitAny /\ [][Next]_vars

\* ------------------------------------------------------------------ two instances
\* mutant: the elapsed time outlives the instance (a static instead of a field)
NewSimStaticTime ==
  /\ pc = "idle"
  /\ inst < MaxInsts
  /\ LET s == New(args.num_neurons, args.neuron_params, args.config,
                  args.stdp_params, args.initial_weight)
     IN  /\ neurons' = s.neurons
         /\ synapses' = s.synapses
         /\ stdp_params' = s.stdp_params
         /\ config' = s.config
         /\ notified' = NoNotes(s.synapses)
  /\ inst' = inst + 1
  /\ calls' = 0
  /\ nsteps' = 0
  /\ last_start' = None
  /\ spikes' = << >>
  /\ weight_log' = << >>
  /\ i' = 0
  /\ potentials' = << >>
  /\ UNCHANGED << args, input_fn, pc, returned, time >>

\* The caller drops the instance and constructs another with the same arguments
\* (Simulation::new again); the values the earlier calls returned are kept.
NewSim ==
  /\ pc = "idle"
  /\ inst < MaxInsts
  /\ LET s == New(args.num_neurons, args.neuron_params, args.config,
                  args.stdp_params, args.initial_weight)
     IN  /\ neurons' = s.neurons
         /\ synapses' = s.synapses
         /\ stdp_params' = s.stdp_params
         /\ config' = s.config
         /\ time' = s.time
         /\ notified' = NoNotes(s.synapses)
  /\ inst' = inst + 1
  /\ calls' = 0
  /\ nsteps' = 0
  /\ last_start' = None
  /\ spikes' = << >>
  /\ weight_log' = << >>
  /\ i' = 0
  /\ potentials' = << >>
  /\ UNCHANGED << args, input_fn, pc, returned >>

NextPair == Next \/ NewSim

ArgsPair ==
  [ num_neurons : 0 .. MaxNeurons, neuron_params : { NeuronParamsOk },
    config : [ dt : DtOk, t_max : { MaxT * ONE + ONE \div 2 } ],
    stdp_params : { StdpA }, initial_weight : { ONE \div 2 } ]

InitPair == \E a \in ArgsPair : \E f \in InputFns(a.num_neurons) : Constructed(a, f)

PairSpec == InitPair /\ [][NextPair]_vars

\* ------------------------------------------------------------------ one synapse
\* A synapse on its own, Synapse::new(0, 1, w), receiving on_pre_spike and
\* on_post_spike calls in any order with any times (not only those run makes).
MaxCalls == 4

StdpFlat == [ StdpB EXCEPT !.w_min = ONE \div 2, !.w_max = ONE \div 2 ]

StdpBig == [ StdpA EXCEPT !.a_plus = 2 * ONE, !.a_minus = 2 * ONE ]

SpikeTimes == { k * (ONE \div 2) : k \in 0 .. 2 * MaxT }

InitSyn ==
  \E w \in InitialWeights : \E sp \in { StdpA, StdpB, StdpFlat, StdpBig, StdpBad } :
    /\ args = [ num_neurons |-> 0, neuron_params |-> NeuronParamsOk,
                config |-> [ dt |-> ONE, t_max |-> ONE ], stdp_params |-> sp,
                initial_weight |-> w ]
    /\ input_fn = [ amp |-> << >>, delay |-> 0 ]
    /\ neurons = << >>
    /\ synapses = << SynapseNew(0, 1, w) >>
    /\ stdp_params = sp
    /\ config = args.config
    /\ time = 0
    /\ pc = "idle"
    /\ i = 0
    /\ spikes = << >>
    /\ weight_log = << >>
    /\ calls = 0
    /\ nsteps = 0
    /\ last_start = None
    /\ returned = << >>
    /\ inst = 1
    /\ notified = NoNotes(synapses)
    /\ potentials = << >>

CallPre(k, t) ==
  /\ notified[k].pre + notified[k].post < MaxCalls
  /\ synapses' = [ synapses EXCEPT ![k] = on_pre_spike(@, t, stdp_params) ]
  /\ notified' = [ notified EXCEPT ![k] = NotePre(@, synapses[k]) ]
  /\ UNCHANGED << args, input_fn, neurons, stdp_params, config, time, pc, i,
                  spikes, weight_log, calls, nsteps, last_start, returned, inst,
                  potentials >>

CallPost(k, t) ==
  /\ notified[k].pre + notified[k].post < MaxCalls
  /\ synapses' = [ synapses EXCEPT ![k] = on_post_spike(@, t, stdp_params) ]
  /\ notified' = [ notified EXCEPT ![k] = NotePost(@, synapses[k]) ]
  /\ UNCHANGED << args, input_fn, neurons, stdp_params, config, time, pc, i,
                  spikes, weight_log, calls, nsteps, last_start, returned, inst,
                  potentials >>

NextSyn ==
  \/ \E k \in 1 .. Len(synapses) : \E t \in SpikeTimes : CallPre(k, t)
  \/ \E k \in 1 .. Len(synapses) : \E t \in SpikeTimes : CallPost(k, t)

SynSpec == InitSyn /\ [][NextSyn]_vars

\* ------------------------------------------------------------------ claims
NumNeurons == Cardinality(DOMAIN neurons)

InBounds(w, params) == params.w_min <= w /\ w <= params.w_max

\* a call of run has returned and none is in progress
Returned == pc = "idle" /\ calls > 0

\* C1: in every state after Simulation::new, every synapse's weight lies in
\* [w_min, w_max], whatever initial_weight was passed, when w_min <= w_max.
\* The constructor stores initial_weight unclamped, so this fails.
C1_WeightAlwaysInBounds ==
  stdp_params.w_min <= stdp_params.w_max
    => \A k \in 1 .. Len(synapses) : InBounds(synapses[k].weight, stdp_params)

\* the arguments the spec's InvalidParameter error is for
InvalidParameter(a) ==
  \/ a.config.dt <= 0
  \/ a.config.t_max <= 0
  \/ a.neuron_params.tau_m <= 0
  \/ a.stdp_params.w_min > a.stdp_params.w_max

\* C2: with dt <= 0, t_max <= 0, tau_m <= 0 or w_min > w_max the constructor
\* yields an error instead of an instance, so no call of run is ever in progress
\* and no timestep is ever entered with such arguments.  Simulation::new checks
\* nothing, so this fails.
C2_InvalidNeverSteps ==
  InvalidParameter(args) => pc = "idle" /\ nsteps = 0

ValidConfig == config.dt > 0 /\ config.t_max > 0

\* the elapsed time has reached t_max and the last timestep executed started in
\* [t_max - dt, t_max)
LastStepAtEnd ==
  /\ time >= config.t_max
  /\ last_start # None
  /\ config.t_max - config.dt <= last_start[1]
  /\ last_start[1] < config.t_max

C5_EveryRunStartsAtZero ==
  /\ pc = "for" /\ nsteps = 1 => last_start = Some(0)
  /\ \A a \in 1 .. Len(returned) : \A b \in 1 .. Len(returned) :
       returned[a].inst = returned[b].inst => returned[a].steps = returned[b].steps

\* the number of while iterations a call starting at elapsed time 0 executes
\* with exact arithmetic
StepCount(cfg) ==
  IF cfg.t_max % cfg.dt = 0 THEN cfg.t_max \div cfg.dt
  ELSE (cfg.t_max \div cfg.dt) + 1

\* C6: with dt > 0 and t_max > 0 a call of run executes t_max/dt timesteps when
\* dt divides t_max and floor(t_max/dt) + 1 otherwise, the last one starting
\* before t_max.  A second call on the same instance executes none (C5).
C6_StepCount ==
  ValidConfig /\ Returned
    => /\ \A a \in 1 .. Len(returned) : returned[a].steps = StepCount(config)
       /\ last_start # None /\ last_start[1] < config.t_max

\* What does hold: the first call on an instance executes StepCount timesteps.
FirstCallStepCount ==
  ValidConfig /\ Returned
    => /\ \A a \in 1 .. Len(returned) :
            returned[a].call = 1 => returned[a].steps = StepCount(config)
       /\ last_start # None /\ last_start[1] < config.t_max

\* spike-time differences the calls can produce, and weights around the bounds
DeltaTs == { a - b : a \in SpikeTimes, b \in SpikeTimes }

WeightsAround(params) == (params.w_min - ONE) .. (params.w_max + ONE)

\* C7: for w_min <= w_max and every sequence of on_pre_spike and on_post_spike
\* calls, the weight is within [w_min, w_max] after every call that assigned it;
\* apply_stdp on a weight at w_max returns no more than w_max, on a weight at
\* w_min no less than w_min; clamp_weight is idempotent.
C7_WeightClamped ==
  stdp_params.w_min <= stdp_params.w_max
    => /\ \A k \in 1 .. Len(synapses) :
            notified[k].updates > 0 => InBounds(synapses[k].weight, stdp_params)
       /\ \A d \in DeltaTs :
            /\ apply_stdp(stdp_params.w_max, d, stdp_params) <= stdp_params.w_max
            /\ apply_stdp(stdp_params.w_min, d, stdp_params) >= stdp_params.w_min
       /\ \A w \in WeightsAround(stdp_params) :
            LET c == clamp_weight(w, stdp_params.w_min, stdp_params.w_max)
            IN  /\ clamp_weight(c, stdp_params.w_min, stdp_params.w_max) = c
                /\ InBounds(c, stdp_params)

\* a synapse created above w_max whose weight the calls have brought down to w_max
\* and left there, with w_min < w_max
C7_Witness ==
  /\ stdp_params.w_min < stdp_params.w_max
  /\ args.initial_weight > stdp_params.w_max
  /\ \E k \in 1 .. Len(synapses) :
       /\ notified[k].updates >= 2
       /\ synapses[k].weight = stdp_params.w_max

\* C9: a synapse that has received only on_pre_spike calls, however many, has
\* weight initial_weight, and so has one that has received only on_post_spike
\* calls; the first notification only records its timestamp.
C9_OneSidedKeepsWeight ==
  \A k \in 1 .. Len(synapses) :
    /\ notified[k].post = 0 \/ notified[k].pre = 0
         => synapses[k].weight = args.initial_weight
    /\ notified[k].pre > 0 /\ notified[k].post = 0
         => synapses[k].last_pre_spike # None /\ synapses[k].last_post_spike = None
    /\ notified[k].post > 0 /\ notified[k].pre = 0
         => synapses[k].last_post_spike # None /\ synapses[k].last_pre_spike = None

\* three on_pre_spike calls and no on_post_spike call
C9_Witness ==
  \E k \in 1 .. Len(synapses) :
    /\ notified[k].pre >= 3 /\ notified[k].post = 0
    /\ synapses[k].last_pre_spike # None

\* C8: Simulation::new with N neurons builds exactly N*(N-1) synapses, one for
\* each ordered pair (pre, post) of distinct indices below N, none with
\* pre = post, each with weight initial_weight and both timestamps unset (until
\* run notifies it); with N = 0 or N = 1 there is no synapse and run still
\* executes its timesteps.
C8_FullConnectivity ==
  /\ NumNeurons = args.num_neurons
  /\ Len(synapses) = NumNeurons * (NumNeurons - 1)
  /\ \A pre \in 0 .. NumNeurons - 1 : \A post \in 0 .. NumNeurons - 1 :
       Cardinality({ k \in 1 .. Len(synapses) :
                       synapses[k].pre_neuron = pre /\ synapses[k].post_neuron = post })
         = IF pre # post THEN 1 ELSE 0
  /\ \A k \in 1 .. Len(synapses) :
       /\ synapses[k].pre_neuron \in 0 .. NumNeurons - 1
       /\ synapses[k].post_neuron \in 0 .. NumNeurons - 1
       /\ calls = 0 => synapses[k] = SynapseNew(synapses[k].pre_neuron,
                                                synapses[k].post_neuron,
                                                args.initial_weight)
  /\ NumNeurons <= 1 => synapses = << >>
  /\ NumNeurons <= 1 /\ Returned
       => time >= config.t_max /\ last_start # None /\ returned[1].steps >= 1

\* a freshly constructed instance with three neurons and six synapses
C8_Witness ==
  /\ calls = 0 /\ NumNeurons = 3 /\ Len(synapses) = 6
  /\ synapses[1].pre_neuron = 0 /\ synapses[1].post_neuron = 1
  /\ synapses[6].pre_neuron = 2 /\ synapses[6].post_neuron = 1

\* the records the firing just pushed: one per synapse, in declaration order,
\* with the spike's time and the synapse's weight after the notifications
FiringBlock ==
  [ k \in 1 .. Len(synapses') |->
      [ time   |-> spikes'[Len(spikes')].time,
        pre    |-> synapses'[k].pre_neuron,
        post   |-> synapses'[k].post_neuron,
        weight |-> synapses'[k].weight ] ]

\* C10: every firing appends to the weight log exactly one record per synapse of
\* the network, in declaration order, with the spike's time and the weight after
\* that firing's notifications, and nothing else appends to it; so the log holds
\* (number of spikes) * N*(N-1) records, also when run returns.
C10_LogEverySynapse ==
  /\ [](Len(weight_log) = Len(spikes) * NumNeurons * (NumNeurons - 1))
  /\ [][ /\ Len(spikes') = Len(spikes) + 1
              => /\ spikes'[Len(spikes')].time = time
                 /\ weight_log' = weight_log \o FiringBlock
         /\ Len(spikes') = Len(spikes) => weight_log' = weight_log ]_vars

\* a run of three neurons has returned three or more spikes, and a synapse no
\* spike of the run touched on its pre side is in the log
C10_Witness ==
  /\ Returned /\ NumNeurons = 3 /\ Len(spikes) >= 3
  /\ Len(weight_log) = 6 * Len(spikes)
  /\ \E k \in 1 .. Len(synapses) : synapses[k].last_pre_spike = None
  /\ \E k \in 1 .. Len(synapses) : synapses[k].weight # args.initial_weight

\* the weight records of synapse (pre -> post) in the log of the call in progress
\* or just returned
RecordsOf(pre, post) ==
  SelectSeq(weight_log, LAMBDA r : r.pre = pre /\ r.post = post)

\* two neurons, neuron 0 has fired in this call and neuron 1 has not
OnlyNeuron0Fires ==
  /\ NumNeurons = 2
  /\ spikes # << >>
  /\ \A s \in 1 .. Len(spikes) : spikes[s].neuron_id = 0

\* C11 as stated: in a 2-neuron run in which neuron 0 fires and neuron 1 never
\* fires, the weight log has records for synapse (0->1), all with weight
\* initial_weight, and zero records for synapse (1->0).  Every firing logs every
\* synapse (C10), so the log does hold records for (1->0).
C11_NoRecordsForReverse ==
  OnlyNeuron0Fires
    => /\ RecordsOf(0, 1) # << >>
       /\ \A r \in 1 .. Len(RecordsOf(0, 1)) :
            RecordsOf(0, 1)[r].weight = args.initial_weight
       /\ RecordsOf(1, 0) = << >>

\* C11 amended: in a 2-neuron run in which neuron 0 fires and neuron 1 never
\* fires, the weight log holds one record per spike for synapse (0->1) and one
\* per spike for synapse (1->0), all with weight initial_weight.
C11_BothSynapsesLogged ==
  OnlyNeuron0Fires
    => /\ Len(RecordsOf(0, 1)) = Len(spikes)
       /\ Len(RecordsOf(1, 0)) = Len(spikes)
       /\ \A r \in 1 .. Len(weight_log) :
            weight_log[r].weight = args.initial_weight

\* a returned 2-neuron run in which neuron 0 fired twice or more and neuron 1
\* never, whose log holds records of (1->0)
C11_Witness ==
  /\ Returned /\ OnlyNeuron0Fires /\ Len(spikes) >= 2
  /\ Len(RecordsOf(1, 0)) >= 2
  /\ synapses[1].last_pre_spike # None /\ synapses[1].last_post_spike = None

PositiveAmplitudes(params) == params.a_plus > 0 /\ params.a_minus > 0

VNew(n) ==
  LET p == neurons[n].params
  IN  neurons[n].v_mem
        + FMul(FDiv(-(neurons[n].v_mem - p.v_rest) + input_current(n, time),
                    p.tau_m), config.dt)

\* the step taken is the step of neuron n within the while body
Stepped(n) == pc = "for" /\ i = n /\ n \in DOMAIN neurons /\ i' = n + 1

\* the step taken pushed the spike of neuron n at the current time
Fired(n) == spikes' = Append(spikes, [ neuron_id |-> n, time |-> time ])

\* C13: Neuron::step returns true (the spike is pushed) exactly when the
\* integrated potential v_new is >= v_thresh, and then v_mem is v_reset on
\* return; within one timestep each neuron is stepped once, in index order, so
\* no two spikes of a run have the same neuron and the same time.
C13_FiresOnThresholdOnce ==
  /\ [][ \A n \in DOMAIN neurons :
           /\ Stepped(n) =>
                /\ Fired(n) <=> VNew(n) >= neurons[n].params.v_thresh
                /\ Fired(n) \/ spikes' = spikes
                /\ Fired(n) => neurons'[n].v_mem = neurons[n].params.v_reset
                /\ \A m \in DOMAIN neurons : m # n => neurons'[m] = neurons[m]
           /\ neurons'[n] # neurons[n] => Stepped(n) ]_vars
  /\ [][ spikes' # spikes /\ spikes' # << >> => \E n \in DOMAIN neurons :
           Stepped(n) /\ Fired(n) ]_vars
  /\ [][ pc = "for" /\ pc' = "for" /\ i' <= i => time' > time ]_vars
  /\ [](\A a \in 1 .. Len(spikes) : \A b \in 1 .. Len(spikes) :
          spikes[a] = spikes[b] => a = b)

\* two neurons have fired in the same timestep and were reset, a third was
\* stepped in it without firing, and one neuron has fired twice in the run
C13_Witness ==
  /\ pc = "for" /\ NumNeurons = 3 /\ i = 3
  /\ \E a \in 1 .. Len(spikes) : \E b \in 1 .. Len(spikes) :
       /\ spikes[a].time = time /\ spikes[b].time = time
       /\ spikes[a].neuron_id # spikes[b].neuron_id
       /\ neurons[spikes[a].neuron_id].v_mem = NeuronParamsOk.v_reset
       /\ neurons[spikes[b].neuron_id].v_mem = NeuronParamsOk.v_reset
  /\ \E n \in DOMAIN neurons :
       /\ neurons[n].v_mem > 0 /\ neurons[n].v_mem < neurons[n].params.v_thresh
       /\ \A s \in 1 .. Len(spikes) : spikes[s].time = time => spikes[s].neuron_id # n
  /\ \E a \in 1 .. Len(spikes) : \E b \in 1 .. Len(spikes) :
       spikes[a].neuron_id = spikes[b].neuron_id /\ spikes[a].time < spikes[b].time

\* ------------------------------------------------------------------ neuron dynamics
\* run with one or two neurons whose resting and reset potentials differ, driven
\* by currents below, at and above the threshold, negative ones included.
NeuronParamsLeaky ==
  [ tau_m |-> 3 * ONE, v_rest |-> -(ONE \div 2), v_thresh |-> ONE,
    v_reset |-> ONE \div 4 ]

CurrentsStep ==
  { -ONE, ONE \div 2, ONE, (3 * ONE) \div 2, (5 * ONE) \div 2, 4 * ONE }

InputFnsStep(n) ==
  [ amp : [ 0 .. n - 1 -> CurrentsStep ], delay : { 0, ONE } ]

ArgsStep ==
  [ num_neurons : { 1, 2 }, neuron_params : { NeuronParamsOk, NeuronParamsLeaky },
    config : [ dt : DtOk \cup { ONE \div 2 }, t_max : { MaxT * ONE + ONE \div 2 } ],
    stdp_params : { StdpA }, initial_weight : { ONE \div 2 } ]

InitStep ==
  \E a \in ArgsStep : \E f \in InputFnsStep(a.num_neurons) : Constructed(a, f)

StepSpec == InitStep /\ [][Next]_vars

\* -(v_mem - v_rest) + I for neuron n at the current time (neuron.rs 57)
Drive(n) ==
  -(neurons[n].v_mem - neurons[n].params.v_rest) + input_current(n, time)

\* dv is within the two roundings of the exact dt * x / tau_m: the quotient
\* x / tau_m is off by at most half a unit (1 / (2 * ONE)), which the product
\* scales by dt, and the product is off by at most half a unit again
WithinRounding(dv, x, dt, tau_m) ==
  Abs(2 * ONE * (tau_m * dv - x * dt)) <= Abs(tau_m) * (dt + ONE)

\* C14: whenever Neuron::step returns false, v_mem on return is
\* v_mem_prev + dt * (-(v_mem_prev - v_rest) + I) / tau_m, computed as
\* v_mem_prev + ((-(v_mem_prev - v_rest) + I) / tau_m) * dt and so equal to the
\* exact value up to the rounding of the quotient and of the product; it is
\* strictly below v_thresh; and nothing but that neuron's v_mem has changed: its
\* parameters, the other neurons, the synapses, the spikes and the weight log
\* are as before.
C14_NonFiringStep ==
  [][ \A n \in DOMAIN neurons :
        Stepped(n) /\ ~Fired(n)
          => /\ neurons'[n].v_mem = VNew(n)
             /\ WithinRounding(neurons'[n].v_mem - neurons[n].v_mem, Drive(n),
                               config.dt, neurons[n].params.tau_m)
             /\ neurons'[n].v_mem < neurons[n].params.v_thresh
             /\ neurons'[n].params = neurons[n].params
             /\ \A m \in DOMAIN neurons : m # n => neurons'[m] = neurons[m]
             /\ UNCHANGED << synapses, spikes, weight_log, stdp_params, config,
                             time >> ]_vars

\* a neuron that has fired before and whose reset potential is above its resting
\* potential has just been stepped without firing, leaking and integrating at
\* once, and another neuron sits below its resting potential
C14_Witness ==
  /\ pc = "for" /\ NumNeurons = 2 /\ i = 2
  /\ \E s \in 1 .. Len(spikes) : spikes[s].neuron_id = 1 /\ spikes[s].time < time
  /\ ~ \E s \in 1 .. Len(spikes) : spikes[s].neuron_id = 1 /\ spikes[s].time = time
  /\ neurons[1].params = NeuronParamsLeaky
  /\ neurons[1].v_mem # neurons[1].params.v_reset
  /\ neurons[1].v_mem > neurons[1].params.v_rest
  /\ neurons[1].v_mem < neurons[1].params.v_thresh
  /\ neurons[0].v_mem < neurons[0].params.v_rest

\* sp is ordered by time and, at equal times, by strictly increasing neuron index
SpikesOrdered(sp) ==
  \A a \in 1 .. Len(sp) : \A b \in 1 .. Len(sp) :
    a < b => \/ sp[a].time < sp[b].time
             \/ sp[a].time = sp[b].time /\ sp[a].neuron_id < sp[b].neuron_id

\* wl is ordered by time and is made of one block per spike of sp, in the order
\* of sp: the records of block s carry the time of spike s and, in declaration
\* order, the endpoints of the synapses
LogFollowsSpikes(sp, wl) ==
  /\ \A a \in 1 .. Len(wl) : \A b \in 1 .. Len(wl) :
       a < b => wl[a].time <= wl[b].time
  /\ Len(wl) = Len(sp) * Len(synapses)
  /\ \A s \in 1 .. Len(sp) : \A k \in 1 .. Len(synapses) :
       LET r == wl[(s - 1) * Len(synapses) + k]
       IN  /\ r.time = sp[s].time
           /\ r.pre = synapses[k].pre_neuron
           /\ r.post = synapses[k].post_neuron

IsPrefix(s, t) == Len(s) <= Len(t) /\ \A k \in 1 .. Len(s) : s[k] = t[k]

\* C15: the spike sequence of a run, while it is built and as returned, is
\* ordered by non-decreasing time and, among spikes with the same time, by
\* strictly increasing neuron index; the weight log is ordered by non-decreasing
\* time and its block of records for a firing follows the blocks of all earlier
\* firings, in the order of the spikes; within a call both only grow at the end.
C15_SpikesAndLogOrdered ==
  /\ [](SpikesOrdered(spikes) /\ LogFollowsSpikes(spikes, weight_log))
  /\ [](\A a \in 1 .. Len(returned) :
          /\ SpikesOrdered(returned[a].spikes)
          /\ LogFollowsSpikes(returned[a].spikes, returned[a].weight_log))
  /\ [][ pc = "for" => IsPrefix(spikes, spikes') /\ IsPrefix(weight_log, weight_log')
       ]_vars
  /\ [][ Len(returned') > Len(returned) /\ pc = "for"
           => /\ returned'[Len(returned')].spikes = spikes
              /\ returned'[Len(returned')].weight_log = weight_log ]_vars

\* a run of three neurons has returned spikes of two neurons at one time, then
\* spikes at a later time, and the weight log has a block for each
C15_Witness ==
  /\ Returned /\ NumNeurons = 3 /\ Len(returned) = 1
  /\ Len(returned[1].spikes) >= 4
  /\ returned[1].spikes[1].time = returned[1].spikes[2].time
  /\ returned[1].spikes[1].neuron_id < returned[1].spikes[2].neuron_id
  /\ returned[1].spikes[2].time < returned[1].spikes[3].time
  /\ returned[1].spikes[2].neuron_id > returned[1].spikes[3].neuron_id
  /\ Len(returned[1].weight_log) = 6 * Len(returned[1].spikes)

\* neuron n has a spike at the current time in the run in progress
FiredNow(n) ==
  \E s \in 1 .. Len(spikes) : spikes[s].neuron_id = n /\ spikes[s].time = time

\* the block of records of spike s in log wl, as the sequence of its weights
BlockWeights(wl, s) ==
  [ k \in 1 .. Len(synapses) |-> wl[(s - 1) * Len(synapses) + k].weight ]

Weights(syns) == [ k \in 1 .. Len(syns) |-> syns[k].weight ]

\* synapse k received the timestep's second notification in this step: it is an
\* update with delta_t = 0, the weight becomes clamp(weight - a_minus)
SecondNotification(k) ==
  /\ notified'[k].updates = notified[k].updates + 1
  /\ synapses'[k].last_pre_spike = Some(time)
  /\ synapses'[k].last_post_spike = Some(time)
  /\ synapses'[k].weight =
       clamp_weight(synapses[k].weight - stdp_params.a_minus,
                    stdp_params.w_min, stdp_params.w_max)

\* C16: when neurons n < j both fire in the same timestep t, the notifications
\* and weight records of n's firing are complete before j is stepped, so n's
\* block shows the weights before j's updates; synapse (n->j) has received
\* on_pre_spike(t) and now receives on_post_spike(t), synapse (j->n) has received
\* on_post_spike(t) and now receives on_pre_spike(t); each second notification
\* uses delta_t = 0 and changes the weight to clamp(weight - a_minus).
C16_SameStepSequential ==
  [][ \A j \in DOMAIN neurons : \A n \in DOMAIN neurons :
        Stepped(j) /\ Fired(j) /\ n < j /\ FiredNow(n)
          => /\ BlockWeights(weight_log, Len(spikes)) = Weights(synapses)
             /\ IsPrefix(weight_log, weight_log')
             /\ BlockWeights(weight_log', Len(spikes')) = Weights(synapses')
             /\ \A k \in 1 .. Len(synapses) :
                  /\ synapses[k].pre_neuron = n /\ synapses[k].post_neuron = j
                       => /\ synapses[k].last_pre_spike = Some(time)
                          /\ notified'[k].pre = notified[k].pre
                          /\ notified'[k].post = notified[k].post + 1
                          /\ SecondNotification(k)
                  /\ synapses[k].pre_neuron = j /\ synapses[k].post_neuron = n
                       => /\ synapses[k].last_post_spike = Some(time)
                          /\ notified'[k].post = notified[k].post
                          /\ notified'[k].pre = notified[k].pre + 1
                          /\ SecondNotification(k) ]_vars

\* neurons 0 and 1 then fired in one timestep: the record of synapse (0->1) in
\* the block of 0's firing shows the weight before 1's update, the record in the
\* block of 1's firing shows it a_minus lower, and likewise for synapse (1->0)
C16_Witness ==
  /\ pc = "for" /\ NumNeurons >= 2 /\ i = 2 /\ Len(spikes) >= 2
  /\ FiredNow(0) /\ FiredNow(1)
  /\ spikes[Len(spikes)].neuron_id = 1 /\ spikes[Len(spikes) - 1].neuron_id = 0
  /\ \E k \in 1 .. Len(synapses) : \E m \in 1 .. Len(synapses) :
       /\ synapses[k].pre_neuron = 0 /\ synapses[k].post_neuron = 1
       /\ synapses[m].pre_neuron = 1 /\ synapses[m].post_neuron = 0
       /\ BlockWeights(weight_log, Len(spikes))[k]
            = BlockWeights(weight_log, Len(spikes) - 1)[k] - stdp_params.a_minus
       /\ BlockWeights(weight_log, Len(spikes))[m]
            = BlockWeights(weight_log, Len(spikes) - 1)[m] - stdp_params.a_minus
       /\ synapses[k].last_pre_spike = synapses[k].last_post_spike
       /\ synapses[m].last_pre_spike = synapses[m].last_post_spike

\* C17: when neuron n fires, every synapse with pre_neuron # n and
\* post_neuron # n keeps its weight and both timestamps, and every synapse
\* incident to n receives exactly one notification for that firing, on_pre_spike
\* if pre_neuron = n and on_post_spike if post_neuron = n, never both; a step
\* that does not fire notifies no synapse.
C17_OnlyIncidentNotified ==
  [][ \A n \in DOMAIN neurons :
        /\ Stepped(n) /\ Fired(n) =>
             \A k \in 1 .. Len(synapses) :
               /\ synapses[k].pre_neuron # n /\ synapses[k].post_neuron # n
                    => synapses'[k] = synapses[k] /\ notified'[k] = notified[k]
               /\ synapses[k].pre_neuron = n
                    => /\ notified'[k].pre = notified[k].pre + 1
                       /\ notified'[k].post = notified[k].post
                       /\ synapses'[k].last_pre_spike = Some(time)
                       /\ synapses'[k].last_post_spike = synapses[k].last_post_spike
               /\ synapses[k].post_neuron = n
                    => /\ notified'[k].post = notified[k].post + 1
                       /\ notified'[k].pre = notified[k].pre
                       /\ synapses'[k].last_post_spike = Some(time)
                       /\ synapses'[k].last_pre_spike = synapses[k].last_pre_spike
               /\ ~(synapses[k].pre_neuron = n /\ synapses[k].post_neuron = n)
               /\ synapses'[k].pre_neuron = synapses[k].pre_neuron
               /\ synapses'[k].post_neuron = synapses[k].post_neuron
        /\ Stepped(n) /\ ~Fired(n) => UNCHANGED << synapses, notified >> ]_vars

\* neuron 2 has just fired: synapse (0->1), updated by earlier spikes of 0 and 1,
\* is not touched by this firing, while (2->0) and (1->2) carry its time
C17_Witness ==
  /\ pc = "for" /\ NumNeurons = 3 /\ i = 3
  /\ spikes # << >> /\ spikes[Len(spikes)] = [ neuron_id |-> 2, time |-> time ]
  /\ \E k \in 1 .. Len(synapses) :
       /\ synapses[k].pre_neuron = 0 /\ synapses[k].post_neuron = 1
       /\ synapses[k].last_pre_spike # None /\ synapses[k].last_pre_spike[1] < time
       /\ synapses[k].last_post_spike # None /\ synapses[k].last_post_spike[1] < time
       /\ synapses[k].weight # args.initial_weight
  /\ \E k \in 1 .. Len(synapses) :
       /\ synapses[k].pre_neuron = 2 /\ synapses[k].post_neuron = 0
       /\ synapses[k].last_pre_spike = Some(time)
  /\ \E k \in 1 .. Len(synapses) :
       /\ synapses[k].pre_neuron = 1 /\ synapses[k].post_neuron = 2
       /\ synapses[k].last_post_spike = Some(time)

\* the time of neuron n's most recent spike in the run in progress, if any
LastSpikeTime(n) ==
  LET times == { spikes[s].time : s \in { x \in 1 .. Len(spikes) :
                                           spikes[x].neuron_id = n } }
  IN  IF times = { } THEN None
      ELSE Some(CHOOSE t \in times : \A u \in times : u <= t)

\* C18: during a run, after the notifications of every firing, for every synapse
\* (pre, post): last_pre_spike is unset iff neuron pre has not fired so far in
\* that run and otherwise is the time of pre's most recent spike, and
\* last_post_spike likewise for neuron post.
C18_TimestampsTrackSpikes ==
  pc = "for"
    => \A k \in 1 .. Len(synapses) :
         /\ synapses[k].last_pre_spike = LastSpikeTime(synapses[k].pre_neuron)
         /\ synapses[k].last_post_spike = LastSpikeTime(synapses[k].post_neuron)

\* in a run of three neurons, one neuron has fired twice, one once and one not
\* at all, and the synapse from the first to the third carries the later time
C18_Witness ==
  /\ pc = "for" /\ NumNeurons = 3
  /\ \E a \in DOMAIN neurons : \E b \in DOMAIN neurons : \E c \in DOMAIN neurons :
       /\ Cardinality({ s \in 1 .. Len(spikes) : spikes[s].neuron_id = a }) = 2
       /\ Cardinality({ s \in 1 .. Len(spikes) : spikes[s].neuron_id = b }) = 1
       /\ LastSpikeTime(c) = None
       /\ \E k \in 1 .. Len(synapses) :
            /\ synapses[k].pre_neuron = a /\ synapses[k].post_neuron = c
            /\ synapses[k].last_pre_spike # None
            /\ synapses[k].last_pre_spike[1] > 0
            /\ \E s \in 1 .. Len(spikes) :
                 spikes[s].neuron_id = a /\ spikes[s].time < synapses[k].last_pre_spike[1]
            /\ synapses[k].last_post_spike = None

\* the firing of neuron n changes the weights in the claimed directions: an
\* update by on_pre_spike has delta_t <= 0 and does not raise the weight, an
\* update by on_post_spike has delta_t >= 0 and does not lower it, except that
\* with delta_t = 0 it does not raise it
UpdateDirections(n) ==
  \A k \in 1 .. Len(synapses) :
    /\ synapses[k].pre_neuron = n /\ synapses[k].last_post_spike # None
         => /\ synapses[k].last_post_spike[1] - time <= 0
            /\ synapses'[k].weight <= synapses[k].weight
    /\ synapses[k].post_neuron = n /\ synapses[k].last_pre_spike # None
         => /\ time - synapses[k].last_pre_spike[1] >= 0
            /\ time - synapses[k].last_pre_spike[1] > 0
                 => synapses'[k].weight >= synapses[k].weight
            /\ time - synapses[k].last_pre_spike[1] = 0
                 => synapses'[k].weight <= synapses[k].weight

\* C19: within a run with dt > 0, a_plus > 0 and a_minus > 0, every weight
\* change made by on_pre_spike uses delta_t = last_post_spike - t_pre <= 0 and
\* never increases the weight, and every weight change made by on_post_spike
\* uses delta_t = t_post - last_pre_spike >= 0 and never decreases the weight
\* unless delta_t = 0, in which case it never increases it.  A weight that
\* starts outside [w_min, w_max] (C1) is moved to the nearer bound by the first
\* update, against the claimed direction.
C19_PreLowersPostRaises ==
  [][ \A n \in DOMAIN neurons :
        /\ config.dt > 0 /\ PositiveAmplitudes(stdp_params)
        /\ Stepped(n) /\ Fired(n)
        => UpdateDirections(n) ]_vars

\* What does hold: the same for the instances constructed with initial_weight
\* within [w_min, w_max].
DirectionsWithinBounds ==
  [][ \A n \in DOMAIN neurons :
        /\ config.dt > 0 /\ PositiveAmplitudes(stdp_params)
        /\ InBounds(args.initial_weight, stdp_params)
        /\ Stepped(n) /\ Fired(n)
        => UpdateDirections(n) ]_vars

\* ------------------------------------------------------------------ other weights
\* The caller drops the instance and constructs another that differs in
\* initial_weight and STDPParams only (same N, NeuronParams, SimulationConfig),
\* then runs it with the same input-current function.
NewSimVaried ==
  \E w \in InitialWeights : \E sp \in { StdpA, StdpB } :
    /\ pc = "idle"
    /\ inst < MaxInsts
    /\ args' = [ args EXCEPT !.initial_weight = w, !.stdp_params = sp ]
    /\ LET s == New(args.num_neurons, args.neuron_params, args.config, sp, w)
       IN  /\ neurons' = s.neurons
           /\ synapses' = s.synapses
           /\ stdp_params' = s.stdp_params
           /\ config' = s.config
           /\ time' = s.time
           /\ notified' = NoNotes(s.synapses)
    /\ inst' = inst + 1
    /\ calls' = 0
    /\ nsteps' = 0
    /\ last_start' = None
    /\ spikes' = << >>
    /\ weight_log' = << >>
    /\ potentials' = << >>
    /\ i' = 0
    /\ UNCHANGED << input_fn, pc, returned >>

NextVaried == Next \/ NewSimVaried

VariedSpec == InitPair /\ [][NextVaried]_vars

\* C20: synaptic state never feeds back into neuron dynamics: two runs that
\* differ only in initial_weight and STDPParams (same N, NeuronParams,
\* SimulationConfig and input-current function; the first call of run on each
\* instance) return identical spike sequences and take every neuron through
\* identical potentials at every step.
C20_WeightsDoNotFeedBack ==
  \A a \in 1 .. Len(returned) : \A b \in 1 .. Len(returned) :
    returned[a].call = 1 /\ returned[b].call = 1
      => /\ returned[a].spikes = returned[b].spikes
         /\ returned[a].potentials = returned[b].potentials

\* two instances with different initial_weight and STDPParams have returned from
\* their first call with several spikes, a potential for every step of every
\* neuron, and different weight logs
C20_Witness ==
  /\ Len(returned) >= 2 /\ pc = "idle" /\ inst = 2 /\ calls = 1
  /\ args.initial_weight # ONE \div 2 /\ args.stdp_params # StdpA
  /\ \E a \in 1 .. Len(returned) :
       /\ returned[a].inst = 1 /\ returned[a].call = 1
       /\ returned[Len(returned)].inst = 2
       /\ Len(returned[a].spikes) >= 3
       /\ Len(returned[a].potentials) = NumNeurons * returned[a].steps
       /\ Len(returned[a].weight_log) = Len(returned[Len(returned)].weight_log)
       /\ returned[a].weight_log # returned[Len(returned)].weight_log
       /\ \E k \in 1 .. Len(returned[a].weight_log) :
            /\ returned[a].weight_log[k].weight # ONE \div 2
            /\ returned[Len(returned)].weight_log[k].weight
                 # returned[a].weight_log[k].weight

====
